---- MODULE Spec2Model ----
(***************************************************************************)
(* The hybrid retrieval layer of AskDocs (backend/app/core/qdrant.py):     *)
(* class Qdrant with its per-tenant collections, its store-handle cache    *)
(* (cachetools.TTLCache) and the operations add_document, delete_document, *)
(* delete_collection and search.  The retrieval backend (QdrantClient) and *)
(* the store handle (QdrantVectorStore) are modelled by the requests the   *)
(* source issues to them and the answers those requests can get.           *)
(***************************************************************************)
EXTENDS Integers, Sequences, FiniteSets, TLC

VARIABLES colls,      \* backend: collection name -> vector schema
          points,     \* backend: the stored points
          nextId,     \* backend: the next system-generated point id
          cache,      \* Qdrant._vectorstore_cache, least recently used first
          uses,       \* the keys of the cache in the order they were stored or read
          nextHandle, \* identity of the next QdrantVectorStore object
          now,        \* the cache's timer (seconds)
          w,          \* per request context: the call in progress
          last,       \* the call completed last
          nOps,       \* calls started
          outages,    \* backend requests that may still fail for want of the backend
          nTicks,     \* clock advances
          qdrant_client, \* the module's global _qdrant_client: 0 for None, or an engine
          engines,    \* the engines constructed by Qdrant() in get_qdrant_client
          returned    \* the engines get_qdrant_client has returned

\* the state of the module outside the engine
process == <<qdrant_client, engines, returned>>

vars == <<colls, points, nextId, cache, uses, nextHandle, now, w, last,
          nOps, outages, nTicks, process>>

-----------------------------------------------------------------------------
(* Bounds of the model *)

MaxOps == 3
MaxFaults == 1
MaxChunks == 2
MaxTicks == 2
search_limit == 1

(* Program constants *)

maxsize == 100
ttl == 3600
DenseSize == 384

-----------------------------------------------------------------------------
(* Values *)

Workers == {"w1", "w2"}
Tenants == {"t1", "t2"}
Queries == {"q1"}
FileNames == {"A", "B"}

\* A path is its sequence of components.
FilePaths == {<<"uploads", "A">>, <<"B">>}

\* the tenants whose handles fill the cache of the cache specification, and those
\* that ask for a handle there
Background == {"u" \o ToString(i) : i \in 1..(maxsize - 1)}
CacheCallers == {"t1", "t2", "u1", "u2"}

\* _qdrant_client: Optional[Qdrant] = None
None == 0

NoLimit == -1
Limits == {NoLimit, 1, 2}

\* documents: List[str] = None
NoDocuments == [given |-> FALSE, any |-> <<>>]
DocList(s) == [given |-> TRUE, any |-> s]
AllowLists == {NoDocuments, DocList(<<>>), DocList(<<"A">>), DocList(<<"A", "B">>)}

\* metadata: a dict, as its set of <<key, value>> items
Keys(m) == {it[1] : it \in m}
MetaGet(m, k) == (CHOOSE it \in m : it[1] = k)[2]

\* langchain Document(page_content, metadata)
Document(text, meta) == [page_content |-> text, metadata |-> meta]
PlainChunk == Document("x", {})
TaggedChunk == Document("y", {<<"source", "B">>, <<"user_id", "zz">>, <<"page", "p1">>})

\* the chunk lists ingested: the slices, of at most MaxChunks chunks, of a document
\* whose chunks are by turns plain and tagged
Chunked == [i \in 1..(MaxChunks + 1) |-> IF i % 2 = 1 THEN PlainChunk ELSE TaggedChunk]
ChunkLists == {SubSeq(Chunked, i, j) : i \in 1..2, j \in 0..MaxChunks}

Range(s) == {s[i] : i \in DOMAIN s}

-----------------------------------------------------------------------------
(* The backend, as QdrantClient answers *)

\* vectors_config / sparse_vectors_config of create_collection
FixedSchema == [dense_size |-> DenseSize, distance |-> "Cosine", sparse |-> TRUE]

Exists(cs, name) == name \in DOMAIN cs

\* client.get_collection
GetCollectionAnswer(cs, name) == IF Exists(cs, name) THEN "ok" ELSE "not_found"

\* client.create_collection: refused when the collection exists
CreateCollectionAnswer(cs, name) == IF Exists(cs, name) THEN "conflict" ELSE "ok"

CreateCollection(cs, name) ==
    [n \in DOMAIN cs \cup {name} |-> IF n = name THEN FixedSchema ELSE cs[n]]

DropCollection(cs, name) == [n \in DOMAIN cs \ {name} |-> cs[n]]

\* the points of one collection
PointsOfMutant(ps, name) == ps

PointsOf(ps, name) == {p \in ps : p.coll = name}

Source(p) == IF "source" \in Keys(p.metadata) THEN MetaGet(p.metadata, "source") ELSE ""

\* models.Filter(must=[FieldCondition(key="metadata.source", match=MatchValue(value))])
MatchValueMutant(p, value) == TRUE

MatchValue(p, value) == Source(p) = value

\* models.Filter(must=[FieldCondition(key="metadata.source", match=MatchAny(any))])
MatchAnyMutant(p, any) == TRUE

MatchAny(p, any) == Source(p) \in Range(any)

\* the points one upsert request writes, one per document, with fresh ids
NewPoints(docs, name, first) ==
    {[id |-> first + i - 1, coll |-> name,
      page_content |-> docs[i].page_content, metadata |-> docs[i].metadata]
        : i \in DOMAIN docs}

\* the rankings a top-k query can answer with: k is the cap
Rankings(matching, k) ==
    LET n == IF Cardinality(matching) < k THEN Cardinality(matching) ELSE k
    IN  {s \in [1..n -> matching] : \A i, j \in 1..n : i # j => s[i] # s[j]}

-----------------------------------------------------------------------------
(* cachetools.TTLCache(maxsize, ttl): entries least recently used first *)

CacheKeys(c) == {c[i].key : i \in DOMAIN c}
Entry(c, key) == c[CHOOSE i \in DOMAIN c : c[i].key = key]
Without(c, key) == SelectSeq(c, LAMBDA e : e.key # key)

\* TTLCache.__contains__
ContainsMutant(c, key, time) == key \in CacheKeys(c)

Contains(c, key, time) == key \in CacheKeys(c) /\ time < Entry(c, key).expires

\* TTLCache.expire
Expire(c, time) == SelectSeq(c, LAMBDA e : time < e.expires)

\* TTLCache.__getitem__ on a live entry: __getlink moves it to the end
TouchMutant(c, key) == c

Touch(c, key) == Append(Without(c, key), Entry(c, key))

\* Cache.__setitem__ under TTLCache: expire, make room, store, link at the end
SetItem(c, key, handle, time) ==
    LET live == Expire(c, time)
        room == IF key \notin CacheKeys(live) /\ Len(live) + 1 > maxsize
                THEN Tail(live) ELSE live
    IN  Append(Without(room, key), [key |-> key, handle |-> handle, expires |-> time + ttl])

-----------------------------------------------------------------------------
(* Pure parts of the engine *)

\* Path(file_path).name
PathName(path) == IF Len(path) = 0 THEN "" ELSE path[Len(path)]

\* dict.update: the items of u replace those of m with the same key
DictUpdateMutant(m, u) == m \cup {it \in u : it[1] \notin Keys(m)}

DictUpdate(m, u) == {it \in m : it[1] \notin Keys(u)} \cup u

\* add_document, the loop over text_chunks
Enrich(text_chunks, collection_name, file_path) ==
    [i \in DOMAIN text_chunks |->
        Document(text_chunks[i].page_content,
                 DictUpdate(text_chunks[i].metadata,
                            {<<"source", PathName(file_path)>>,
                             <<"user_id", collection_name>>}))]

\* doc_metadata = chunk.metadata.copy(): the update is made on the copy, and the
\* caller's chunks are left as they were
LoopLeaves(text_chunks, documents) == text_chunks

\* if not documents:
NothingToWriteMutant(documents) == FALSE

NothingToWrite(documents) == Len(documents) = 0

\* search: limit defaults to the configured search_limit
CapMutant(limit) == IF limit = NoLimit THEN search_limit ELSE limit + 1

Cap(limit) == IF limit = NoLimit THEN search_limit ELSE limit

\* QdrantVectorStore.__init__ validates the collection against the handle
ValidSchema(sch) == sch.dense_size = DenseSize /\ sch.distance = "Cosine" /\ sch.sparse

NoHandle == [id |-> 0, collection_name |-> ""]

-----------------------------------------------------------------------------
(* Request contexts *)

NoSnap == [colls |-> <<>>, points |-> {}, cache |-> <<>>, now |-> 0]

Idle == [pc |-> "idle", op |-> "", collection_name |-> "", text_chunks |-> <<>>,
         given |-> <<>>,
         file_path |-> <<>>, any |-> NoDocuments, limit |-> NoLimit, query |-> "",
         doc_name |-> "", documents |-> <<>>, handle |-> NoHandle, reqs |-> <<>>,
         pre |-> NoSnap, overlapped |-> FALSE]

Snap == [colls |-> colls, points |-> points, cache |-> cache, now |-> now]
SnapAfter == [colls |-> colls', points |-> points', cache |-> cache', now |-> now']

Busy(wk) == w[wk].pc # "idle"

\* the answers a backend request can get: its own, or none for want of the backend
Answers(own) == {own} \cup (IF outages > 0 THEN {"unavailable"} ELSE {})
Fault(a) == outages' = (IF a = "unavailable" THEN outages - 1 ELSE outages)

Req(kind, name, a) ==
    [req |-> kind, coll |-> name, answer |-> a,
     existed |-> Exists(colls, name) /\ ValidSchema(colls[name])]

Call(wk, inputs) ==
    /\ ~Busy(wk)
    /\ nOps < MaxOps
    /\ nOps' = nOps + 1
    /\ w' = [v \in Workers |->
               IF v = wk
               THEN [inputs EXCEPT !.pre = Snap,
                                   !.overlapped = \E o \in Workers \ {wk} : Busy(o)]
               ELSE IF Busy(v) THEN [w[v] EXCEPT !.overlapped = TRUE] ELSE w[v]]
    /\ UNCHANGED <<colls, points, nextId, cache, uses, nextHandle, now, last, outages, nTicks, process>>

\* the call of wk ends: it returns, or raises what made it fail
End(wk, reqs, handle, documents, text_chunks, raised, error, hits) ==
    /\ w' = [w EXCEPT ![wk] = Idle]
    /\ last' = [wk |-> wk, op |-> w[wk].op, collection_name |-> w[wk].collection_name,
                  text_chunks |-> text_chunks, given |-> w[wk].given,
                  file_path |-> w[wk].file_path,
                  any |-> w[wk].any, limit |-> w[wk].limit, query |-> w[wk].query,
                  doc_name |-> w[wk].doc_name, documents |-> documents,
                  handle |-> handle, reqs |-> reqs, pre |-> w[wk].pre,
                  post |-> SnapAfter, overlapped |-> w[wk].overlapped,
                  raised |-> raised, error |-> error, hits |-> hits]

NoCall == [wk |-> "", op |-> "", collection_name |-> "", text_chunks |-> <<>>,
           given |-> <<>>,
           file_path |-> <<>>, any |-> NoDocuments, limit |-> NoLimit, query |-> "",
           doc_name |-> "", documents |-> <<>>, handle |-> NoHandle, reqs |-> <<>>,
           pre |-> NoSnap, post |-> NoSnap, overlapped |-> FALSE,
           raised |-> FALSE, error |-> "", hits |-> <<>>]

Return(wk, reqs, handle, documents, hits) ==
    End(wk, reqs, handle, documents, w[wk].text_chunks, FALSE, "", hits)

\* an exception no frame of the call catches
Raise(wk, reqs, error) ==
    End(wk, reqs, w[wk].handle, w[wk].documents, w[wk].text_chunks, TRUE, error, <<>>)

Goto(wk, pc, reqs) == w' = [w EXCEPT ![wk].pc = pc, ![wk].reqs = reqs]

-----------------------------------------------------------------------------
(* The calls a request handler makes *)

StartAddDocument(wk, lists, tenants, paths) ==
    \E text_chunks \in lists, collection_name \in tenants, file_path \in paths :
        Call(wk, [Idle EXCEPT !.pc = "ens_get", !.op = "add_document",
                              !.text_chunks = text_chunks, !.given = text_chunks,
                              !.collection_name = collection_name,
                              !.file_path = file_path])

StartSearch(wk, tenants, allow, limits) ==
    \E query \in Queries, collection_name \in tenants, documents \in allow,
       limit \in limits :
        Call(wk, [Idle EXCEPT !.pc = "gvs_check", !.op = "search", !.query = query,
                              !.collection_name = collection_name,
                              !.any = documents, !.limit = limit])

StartDeleteDocument(wk, names, tenants) ==
    \E doc_name \in names, collection_name \in tenants :
        Call(wk, [Idle EXCEPT !.pc = "delete", !.op = "delete_document",
                              !.doc_name = doc_name,
                              !.collection_name = collection_name])

StartDeleteCollection(wk, tenants) ==
    \E collection_name \in tenants :
        Call(wk, [Idle EXCEPT !.pc = "delete_collection", !.op = "delete_collection",
                              !.collection_name = collection_name])

StartEnsureCollection(wk, tenants) ==
    \E collection_name \in tenants :
        Call(wk, [Idle EXCEPT !.pc = "ens_get", !.op = "_ensure_collection",
                              !.collection_name = collection_name])

-----------------------------------------------------------------------------
(* _ensure_collection *)

\* after _ensure_collection: add_document goes on, a direct call returns
EnsureDone(wk, reqs) ==
    IF w[wk].op = "add_document"
    THEN Goto(wk, "add_build", reqs) /\ UNCHANGED last
    ELSE Return(wk, reqs, NoHandle, <<>>, <<>>)

\* try: self.client.get_collection(collection_name); except: ...
EnsureLookupThenMutant(wk, a, reqs) == Goto(wk, "ens_create", reqs) /\ UNCHANGED last

EnsureLookupThen(wk, a, reqs) ==
    IF a = "ok" THEN EnsureDone(wk, reqs)
    ELSE Goto(wk, "ens_create", reqs) /\ UNCHANGED last

EnsureLookup(wk) ==
    /\ w[wk].pc = "ens_get"
    /\ \E a \in Answers(GetCollectionAnswer(colls, w[wk].collection_name)) :
          /\ Fault(a)
          /\ UNCHANGED <<colls, points, nextId, cache, uses, nextHandle, now, nOps, nTicks, process>>
          /\ EnsureLookupThen(wk, a, Append(w[wk].reqs,
                                 Req("get_collection", w[wk].collection_name, a)))

\* a create_collection that fails: nothing in _ensure_collection or add_document
\* catches it
CreateFailedMutant(wk, reqs, a) == EnsureDone(wk, reqs)

CreateFailed(wk, reqs, a) == Raise(wk, reqs, a)

\* self.client.create_collection(...)
EnsureCreate(wk) ==
    /\ w[wk].pc = "ens_create"
    /\ \E a \in Answers(CreateCollectionAnswer(colls, w[wk].collection_name)) :
          LET reqs == Append(w[wk].reqs, Req("create_collection", w[wk].collection_name, a))
          IN  /\ Fault(a)
              /\ colls' = IF a = "ok" THEN CreateCollection(colls, w[wk].collection_name)
                          ELSE colls
              /\ UNCHANGED <<points, nextId, cache, uses, nextHandle, now, nOps, nTicks, process>>
              /\ IF a = "ok" THEN EnsureDone(wk, reqs) ELSE CreateFailed(wk, reqs, a)

-----------------------------------------------------------------------------
(* _get_vector_store *)

\* after _get_vector_store: the caller goes on with the handle
StoreDone(wk, handle, reqs) ==
    IF w[wk].op = "add_document"
    THEN w' = [w EXCEPT ![wk].pc = "upsert", ![wk].handle = handle, ![wk].reqs = reqs]
         /\ UNCHANGED last
    ELSE IF w[wk].op = "search"
    THEN w' = [w EXCEPT ![wk].pc = "query", ![wk].handle = handle, ![wk].reqs = reqs]
         /\ UNCHANGED last
    ELSE Return(wk, reqs, handle, <<>>, <<>>)

\* if collection_name in self._vectorstore_cache:
StoreCheck(wk) ==
    /\ w[wk].pc = "gvs_check"
    /\ Goto(wk, IF Contains(cache, w[wk].collection_name, now) THEN "gvs_read" ELSE "gvs_new",
            w[wk].reqs)
    /\ UNCHANGED <<colls, points, nextId, cache, uses, nextHandle, now, last, nOps, outages, nTicks, process>>

\* return self._vectorstore_cache[collection_name]
StoreRead(wk) ==
    /\ w[wk].pc = "gvs_read"
    /\ UNCHANGED <<colls, points, nextId, nextHandle, now, nOps, outages, nTicks, process>>
    /\ IF Contains(cache, w[wk].collection_name, now)
       THEN /\ cache' = Touch(cache, w[wk].collection_name)
            /\ uses' = Append(uses, w[wk].collection_name)
            /\ StoreDone(wk, Entry(cache, w[wk].collection_name).handle,
                         Append(w[wk].reqs,
                                [req |-> "cache_hit", coll |-> w[wk].collection_name,
                                 answer |-> "ok", existed |-> TRUE,
                                 before |-> cache, used |-> uses, time |-> now]))
       ELSE /\ UNCHANGED <<cache, uses>>
            /\ Raise(wk, w[wk].reqs, "KeyError")

\* vectorstore = QdrantVectorStore(...): the constructor looks the collection up
StoreConstructMutant(wk) ==
    /\ w[wk].pc = "gvs_new"
    /\ LET name == w[wk].collection_name
           reqs == Append(w[wk].reqs, Req("validate", name, "ok"))
       IN  /\ outages' = outages
           /\ colls' = IF Exists(colls, name) THEN colls ELSE CreateCollection(colls, name)
           /\ UNCHANGED <<points, nextId, cache, uses, now, nOps, nTicks, process>>
           /\ nextHandle' = nextHandle + 1
           /\ w' = [w EXCEPT ![wk].pc = "gvs_put", ![wk].reqs = reqs,
                             ![wk].handle = [id |-> nextHandle, collection_name |-> name]]
           /\ UNCHANGED last

StoreConstruct(wk) ==
    /\ w[wk].pc = "gvs_new"
    /\ \E a \in Answers(GetCollectionAnswer(colls, w[wk].collection_name)) :
          LET name == w[wk].collection_name
              reqs == Append(w[wk].reqs, Req("validate", name, a))
          IN  /\ Fault(a)
              /\ UNCHANGED <<colls, points, nextId, cache, uses, now, nOps, nTicks, process>>
              /\ IF a # "ok"
                 THEN nextHandle' = nextHandle /\ Raise(wk, reqs, a)
                 ELSE IF ~ValidSchema(colls[name])
                 THEN nextHandle' = nextHandle /\ Raise(wk, reqs, "schema")
                 ELSE /\ nextHandle' = nextHandle + 1
                      /\ w' = [w EXCEPT ![wk].pc = "gvs_put", ![wk].reqs = reqs,
                                        ![wk].handle = [id |-> nextHandle,
                                                        collection_name |-> name]]
                      /\ UNCHANGED last

\* self._vectorstore_cache[collection_name] = vectorstore
StoreInsert(wk) ==
    /\ w[wk].pc = "gvs_put"
    /\ cache' = SetItem(cache, w[wk].collection_name, w[wk].handle, now)
    /\ uses' = Append(uses, w[wk].collection_name)
    /\ UNCHANGED <<colls, points, nextId, nextHandle, now, nOps, outages, nTicks, process>>
    /\ StoreDone(wk, w[wk].handle,
                 Append(w[wk].reqs,
                        [req |-> "cache_set", coll |-> w[wk].collection_name,
                         answer |-> "ok", existed |-> TRUE,
                         before |-> cache, used |-> uses, time |-> now]))

StartGetVectorStore(wk, tenants) ==
    \E collection_name \in tenants :
        Call(wk, [Idle EXCEPT !.pc = "gvs_check", !.op = "_get_vector_store",
                              !.collection_name = collection_name])

-----------------------------------------------------------------------------
(* add_document, after _ensure_collection *)

\* the loop over text_chunks, and "if not documents: ... return"
AddBuild(wk) ==
    /\ w[wk].pc = "add_build"
    /\ UNCHANGED <<colls, points, nextId, cache, uses, nextHandle, now, nOps, outages, nTicks, process>>
    /\ LET documents == Enrich(w[wk].text_chunks, w[wk].collection_name, w[wk].file_path)
           left == LoopLeaves(w[wk].text_chunks, documents)
       IN  IF NothingToWrite(documents)
           THEN End(wk, Append(w[wk].reqs,
                               [req |-> "warning", coll |-> w[wk].collection_name,
                                answer |-> "ok", existed |-> TRUE]),
                    NoHandle, documents, left, FALSE, "", <<>>)
           ELSE /\ w' = [w EXCEPT ![wk].pc = "gvs_check", ![wk].documents = documents,
                                  ![wk].text_chunks = left]
                /\ UNCHANGED last

\* vector_store.add_documents(documents): one upsert request
AddUpsert(wk) ==
    /\ w[wk].pc = "upsert"
    /\ LET name == w[wk].handle.collection_name
       IN  \E a \in Answers(GetCollectionAnswer(colls, name)) :
              /\ Fault(a)
              /\ points' = IF a = "ok"
                           THEN points \cup NewPoints(w[wk].documents, name, nextId)
                           ELSE points
              /\ nextId' = IF a = "ok" THEN nextId + Len(w[wk].documents) ELSE nextId
              /\ UNCHANGED <<colls, cache, uses, nextHandle, now, nOps, nTicks, process>>
              /\ LET reqs == Append(w[wk].reqs, Req("upsert", name, a))
                 IN  IF a = "ok"
                     THEN Return(wk, reqs, w[wk].handle, w[wk].documents, <<>>)
                     ELSE Raise(wk, reqs, a)

-----------------------------------------------------------------------------
(* delete_document, delete_collection *)

\* self.client.delete(collection_name, FilterSelector(filter_to_delete))
DeleteDocument(wk) ==
    /\ w[wk].pc = "delete"
    /\ LET name == w[wk].collection_name
       IN  \E a \in Answers(GetCollectionAnswer(colls, name)) :
              /\ Fault(a)
              /\ points' = IF a = "ok"
                           THEN {p \in points :
                                   ~(p.coll = name /\ MatchValue(p, w[wk].doc_name))}
                           ELSE points
              /\ UNCHANGED <<colls, nextId, cache, uses, nextHandle, now, nOps, nTicks, process>>
              /\ LET reqs == Append(w[wk].reqs, Req("delete", name, a))
                 IN  IF a = "ok"
                     THEN Return(wk, reqs, NoHandle, <<>>, <<>>)
                     ELSE Raise(wk, reqs, a)

\* self.client.delete_collection(collection_name): a missing collection is no error
DeleteCollectionMutant(wk) ==
    /\ w[wk].pc = "delete_collection"
    /\ LET name == w[wk].collection_name
       IN  /\ outages' = outages
           /\ colls' = IF Exists(colls, name) THEN DropCollection(colls, name) ELSE colls
           /\ points' = points \ PointsOf(points, name)
           /\ cache' = Without(cache, name)
           /\ UNCHANGED <<nextId, uses, nextHandle, now, nOps, nTicks, process>>
           /\ Return(wk, Append(w[wk].reqs, Req("delete_collection", name, "ok")),
                     NoHandle, <<>>, <<>>)

DeleteCollection(wk) ==
    /\ w[wk].pc = "delete_collection"
    /\ LET name == w[wk].collection_name
       IN  \E a \in Answers("ok") :
              /\ Fault(a)
              /\ colls' = IF a = "ok" /\ Exists(colls, name)
                          THEN DropCollection(colls, name) ELSE colls
              /\ points' = IF a = "ok" THEN points \ PointsOf(points, name) ELSE points
              /\ UNCHANGED <<nextId, cache, uses, nextHandle, now, nOps, nTicks, process>>
              /\ LET reqs == Append(w[wk].reqs, Req("delete_collection", name, a))
                 IN  IF a = "ok"
                     THEN Return(wk, reqs, NoHandle, <<>>, <<>>)
                     ELSE Raise(wk, reqs, a)

-----------------------------------------------------------------------------
(* search, after _get_vector_store *)

\* vector_store.similarity_search(query, k=limit, filter=...): MatchAny(any=None)
\* is refused before any request; else one query request
SearchQuery(wk) ==
    /\ w[wk].pc = "query"
    /\ UNCHANGED <<colls, points, nextId, cache, uses, nextHandle, now, nOps, nTicks, process>>
    /\ IF ~w[wk].any.given
       THEN outages' = outages /\ Raise(wk, w[wk].reqs, "ValidationError")
       ELSE LET name == w[wk].handle.collection_name
                matching == {p \in PointsOf(points, name) : MatchAny(p, w[wk].any.any)}
            IN  \E a \in Answers(GetCollectionAnswer(colls, name)) :
                   /\ Fault(a)
                   /\ LET reqs == Append(w[wk].reqs, Req("query", name, a))
                      IN  IF a = "ok"
                          THEN \E hits \in Rankings(matching, Cap(w[wk].limit)) :
                                  Return(wk, reqs, w[wk].handle, <<>>, hits)
                          ELSE Raise(wk, reqs, a)

\* return [hit.page_content for hit in results]
Texts(hits) == [i \in DOMAIN hits |-> hits[i].page_content]

-----------------------------------------------------------------------------
(* Time *)

Tick ==
    /\ nTicks < MaxTicks
    /\ \E d \in {1, ttl - 1} : now' = now + d
    /\ nTicks' = nTicks + 1
    /\ UNCHANGED <<colls, points, nextId, cache, uses, nextHandle, w, last, nOps, outages, process>>

-----------------------------------------------------------------------------
(* Specifications *)

Init ==
    /\ colls = <<>>
    /\ points = {}
    /\ nextId = 1
    /\ cache = <<>>
    /\ uses = <<>>
    /\ nextHandle = 1
    /\ now = 0
    /\ w = [wk \in Workers |-> Idle]
    /\ last = NoCall
    /\ nOps = 0
    /\ outages = 0
    /\ nTicks = 0
    /\ qdrant_client = None
    /\ engines = {}
    /\ returned = {}

\* as Init, with a backend that can be out of reach for MaxFaults requests
InitFaults ==
    /\ colls = <<>>
    /\ points = {}
    /\ nextId = 1
    /\ cache = <<>>
    /\ uses = <<>>
    /\ nextHandle = 1
    /\ now = 0
    /\ w = [wk \in Workers |-> Idle]
    /\ last = NoCall
    /\ nOps = 0
    /\ outages = MaxFaults
    /\ nTicks = 0
    /\ qdrant_client = None
    /\ engines = {}
    /\ returned = {}

\* the steps of a call in progress
Proceed(wk) ==
    \/ EnsureLookup(wk)
    \/ EnsureCreate(wk)
    \/ StoreCheck(wk)
    \/ StoreRead(wk)
    \/ StoreConstruct(wk)
    \/ StoreInsert(wk)
    \/ AddBuild(wk)
    \/ AddUpsert(wk)
    \/ DeleteDocument(wk)
    \/ DeleteCollection(wk)
    \/ SearchQuery(wk)

Step(wk) ==
    \/ StartAddDocument(wk, ChunkLists, Tenants, FilePaths)
    \/ StartSearch(wk, Tenants, AllowLists, Limits)
    \/ StartDeleteDocument(wk, FileNames, Tenants)
    \/ StartDeleteCollection(wk, Tenants)
    \/ StartEnsureCollection(wk, Tenants)
    \/ Proceed(wk)

\* one request context: the calls follow one another
Next == Step("w1")

\* a backend that answers every request
Spec == Init /\ [][Next]_vars

\* a backend that can fail to answer
SpecFaults == InitFaults /\ [][Next]_vars

\* the engine after it has ingested for each background tenant, u1 first, at time 0
Warm == [i \in 1..(maxsize - 1) |->
            [key |-> "u" \o ToString(i),
             handle |-> [id |-> i, collection_name |-> "u" \o ToString(i)],
             expires |-> ttl]]

InitCache ==
    /\ colls = [n \in Background \cup Tenants |-> FixedSchema]
    /\ points = {}
    /\ nextId = 1
    /\ cache = Warm
    /\ uses = [i \in 1..(maxsize - 1) |-> "u" \o ToString(i)]
    /\ nextHandle = maxsize
    /\ now = 0
    /\ w = [wk \in Workers |-> Idle]
    /\ last = NoCall
    /\ nOps = 0
    /\ outages = 0
    /\ nTicks = 0
    /\ qdrant_client = None
    /\ engines = {}
    /\ returned = {}

CacheStep(wk) ==
    \/ StartGetVectorStore(wk, CacheCallers)
    \/ StoreCheck(wk)
    \/ StoreRead(wk)
    \/ StoreConstruct(wk)
    \/ StoreInsert(wk)

NextCache == CacheStep("w1") \/ Tick

\* calls of _get_vector_store on a cache one entry short of full, as time passes
SpecCache == InitCache /\ [][NextCache]_vars

CacheConcStep(wk) ==
    \/ StartGetVectorStore(wk, {"t1", "t2", "u1"})
    \/ StoreCheck(wk)
    \/ StoreRead(wk)
    \/ StoreConstruct(wk)
    \/ StoreInsert(wk)

NextCacheConc == (\E wk \in Workers : CacheConcStep(wk)) \/ Tick

\* the same, from two request contexts whose steps interleave
SpecCacheConc == InitCache /\ [][NextCacheConc]_vars

\* two request contexts at work on one tenant, their steps interleaved
ConcStep(wk) ==
    \/ StartAddDocument(wk, {<<>>, <<PlainChunk>>}, {"t1"}, {<<"B">>})
    \/ StartSearch(wk, {"t1"}, {DocList(<<"B">>)}, {NoLimit})
    \/ StartDeleteDocument(wk, {"B"}, {"t1"})
    \/ StartDeleteCollection(wk, {"t1"})
    \/ Proceed(wk)

NextConc == \E wk \in Workers : ConcStep(wk)

SpecConc == Init /\ [][NextConc]_vars

\* one request context at work on two tenants and one file name, on an engine
\* whose cache is one entry short of full
WarmStep(wk) ==
    \/ StartAddDocument(wk, {<<PlainChunk>>}, Tenants, {<<"uploads", "A">>})
    \/ StartSearch(wk, Tenants, {DocList(<<"A">>)}, {NoLimit})
    \/ StartDeleteDocument(wk, {"A"}, Tenants)
    \/ StartDeleteCollection(wk, Tenants)
    \/ Proceed(wk)

NextWarm == WarmStep("w1")

SpecWarm == InitCache /\ [][NextWarm]_vars

\* one request context at work on one tenant, as time passes
ReuseStep(wk) ==
    \/ StartAddDocument(wk, {<<>>, <<PlainChunk>>}, {"t1"}, {<<"B">>})
    \/ StartSearch(wk, {"t1"}, {DocList(<<"B">>)}, {NoLimit})
    \/ StartDeleteDocument(wk, {"B"}, {"t1"})
    \/ StartDeleteCollection(wk, {"t1"})
    \/ Proceed(wk)

NextReuse == ReuseStep("w1") \/ Tick

SpecReuse == Init /\ [][NextReuse]_vars

\* two request contexts that ingest for one tenant, their steps interleaved
IngestStep(wk) ==
    \/ StartAddDocument(wk, {<<>>, <<PlainChunk>>}, {"t1"}, {<<"B">>})
    \/ EnsureLookup(wk)
    \/ EnsureCreate(wk)
    \/ AddBuild(wk)
    \/ StoreCheck(wk)
    \/ StoreRead(wk)
    \/ StoreConstruct(wk)
    \/ StoreInsert(wk)
    \/ AddUpsert(wk)

NextIngest == \E wk \in Workers : IngestStep(wk)

SpecIngest == Init /\ [][NextIngest]_vars

-----------------------------------------------------------------------------
(* get_qdrant_client *)

StartGetQdrantClient(wk) ==
    Call(wk, [Idle EXCEPT !.pc = "gq_check", !.op = "get_qdrant_client"])

\* if _qdrant_client is None:
SingletonCheck(wk) ==
    /\ w[wk].pc = "gq_check"
    /\ Goto(wk, IF qdrant_client = None THEN "gq_new" ELSE "gq_ret", w[wk].reqs)
    /\ UNCHANGED <<colls, points, nextId, cache, uses, nextHandle, now, last, nOps, outages, nTicks, process>>

\* Qdrant(): the client and the embedding models of one more engine
SingletonConstruct(wk) ==
    /\ w[wk].pc = "gq_new"
    /\ LET engine == Cardinality(engines) + 1
       IN  /\ engines' = engines \cup {engine}
           /\ w' = [w EXCEPT ![wk].pc = "gq_set",
                             ![wk].handle = [id |-> engine, collection_name |-> ""]]
    /\ UNCHANGED <<colls, points, nextId, cache, uses, nextHandle, now, last, nOps, outages, nTicks,
                   qdrant_client, returned>>

\* _qdrant_client = <the engine constructed>
SingletonAssign(wk) ==
    /\ w[wk].pc = "gq_set"
    /\ qdrant_client' = w[wk].handle.id
    /\ Goto(wk, "gq_ret", w[wk].reqs)
    /\ UNCHANGED <<colls, points, nextId, cache, uses, nextHandle, now, last, nOps, outages, nTicks,
                   engines, returned>>

\* return _qdrant_client
SingletonReturn(wk) ==
    /\ w[wk].pc = "gq_ret"
    /\ returned' = returned \cup {qdrant_client}
    /\ UNCHANGED <<colls, points, nextId, cache, uses, nextHandle, now, nOps, outages, nTicks,
                   qdrant_client, engines>>
    /\ Return(wk, w[wk].reqs, [id |-> qdrant_client, collection_name |-> ""], <<>>, <<>>)

SingletonStep(wk) ==
    \/ StartGetQdrantClient(wk)
    \/ SingletonCheck(wk)
    \/ SingletonConstruct(wk)
    \/ SingletonAssign(wk)
    \/ SingletonReturn(wk)

NextSingleton == \E wk \in Workers : SingletonStep(wk)

\* request contexts that ask for the engine, their steps interleaved
SpecSingleton == Init /\ [][NextSingleton]_vars

-----------------------------------------------------------------------------
(* What the claims read of a call *)

ReqsOf(c, kind) == {i \in DOMAIN c.reqs : c.reqs[i].req = kind}
Item(m, k) == {it \in m : it[1] = k}
Others(m) == {it \in m : it[1] \notin {"source", "user_id"}}
Written(c) == c.post.points \ c.pre.points
Removed(c) == c.pre.points \ c.post.points

-----------------------------------------------------------------------------
(* C1: _ensure_collection(tenant) on a tenant with no collection leaves one
   collection for it, with a dense space of size 384 and cosine distance and a
   sparse space; called on a collection that exists, whatever it holds, it
   issues no create_collection request and changes no collection and no point. *)
C1_EnsureIdempotent ==
    last.op = "_ensure_collection" =>
        LET t == last.collection_name
        IN  /\ ~last.raised
            /\ t \in DOMAIN last.post.colls
            /\ last.post.colls[t] = [dense_size |-> 384, distance |-> "Cosine", sparse |-> TRUE]
            /\ \A n \in DOMAIN last.pre.colls :
                  n \in DOMAIN last.post.colls /\ last.post.colls[n] = last.pre.colls[n]
            /\ DOMAIN last.post.colls \subseteq DOMAIN last.pre.colls \cup {t}
            /\ last.post.points = last.pre.points
            /\ t \in DOMAIN last.pre.colls => ReqsOf(last, "create_collection") = {}
            /\ t \notin DOMAIN last.pre.colls =>
                  Cardinality(ReqsOf(last, "create_collection")) = 1

\* the second call: the collection exists and holds points
C1_Witness ==
    /\ last.op = "_ensure_collection"
    /\ last.collection_name \in DOMAIN last.pre.colls
    /\ PointsOf(last.pre.points, last.collection_name) # {}
    /\ ~last.raised

-----------------------------------------------------------------------------
(* C2: the points add_document writes are one per chunk passed; the point of a
   chunk has metadata source = the base name of file_path and user_id =
   collection_name, and no other value under those keys, also when the chunk
   came with its own; every other item of the chunk's metadata is stored as it
   was, and the caller's chunks are as they were passed. *)
C2_InjectedMetadata ==
    last.op = "add_document" =>
        LET name == last.file_path[Len(last.file_path)]
            IsPointOf(p, chunk) ==
                /\ p.coll = last.collection_name
                /\ p.page_content = chunk.page_content
                /\ Item(p.metadata, "source") = {<<"source", name>>}
                /\ Item(p.metadata, "user_id") = {<<"user_id", last.collection_name>>}
                /\ Others(p.metadata) = Others(chunk.metadata)
        IN  /\ last.text_chunks = last.given
            /\ \A p \in Written(last) : \E i \in DOMAIN last.given : IsPointOf(p, last.given[i])
            /\ ~last.raised =>
                  /\ Cardinality(Written(last)) = Len(last.given)
                  /\ \A i \in DOMAIN last.given :
                        \E p \in Written(last) : IsPointOf(p, last.given[i])

\* a chunk that came with a source, a user_id and a page of its own was written
C2_Witness ==
    /\ last.op = "add_document"
    /\ ~last.raised
    /\ last.file_path = <<"uploads", "A">>
    /\ \E i \in DOMAIN last.given :
          /\ <<"source", "B">> \in last.given[i].metadata
          /\ <<"user_id", "zz">> \in last.given[i].metadata
    /\ \E p \in Written(last) : <<"page", "p1">> \in p.metadata

-----------------------------------------------------------------------------
(* C3: delete_document(A, tenant) removes the points of the tenant's collection
   whose metadata.source is A and no other: a point of another source B is
   stored as before, and every search of the tenant whose allow-list holds B and
   whose cap is not below the number of points it admits returns it. *)
C3_DeleteBySource ==
    (last.op = "delete_document" /\ ~last.raised) =>
        LET t == last.collection_name
            kept == {p \in last.pre.points :
                        ~(p.coll = t /\ <<"source", last.doc_name>> \in p.metadata)}
        IN  /\ last.post.points = kept
            /\ last.post.colls = last.pre.colls
            /\ \A p \in PointsOf(kept, t) :
                  \A any \in {l \in AllowLists : l.given /\ Source(p) \in Range(l.any)} :
                     LET admitted == {q \in PointsOf(last.post.points, t) : MatchAny(q, any.any)}
                     IN  /\ p \in admitted
                         /\ \A k \in Cardinality(admitted)..(Cardinality(admitted) + 1) :
                               \A hits \in Rankings(admitted, k) : p \in Range(hits)

\* points of A and of B were stored for the tenant, and those of A went
C3_Witness ==
    /\ last.op = "delete_document"
    /\ ~last.raised
    /\ last.doc_name = "A"
    /\ \E p \in Removed(last) : Source(p) = "A"
    /\ \E p \in PointsOf(last.post.points, last.collection_name) : Source(p) = "B"

-----------------------------------------------------------------------------
(* C4: every text search(query, tenant, documents, limit) returns is the text
   of a point stored in the tenant's collection whose metadata.source is one of
   documents; with documents = [A] no point of source B is among the hits. *)
C4_SearchAllowList ==
    (last.op = "search" /\ ~last.raised) =>
        /\ \A i \in DOMAIN last.hits :
              /\ last.hits[i] \in last.pre.points
              /\ last.hits[i].coll = last.collection_name
              /\ \E j \in DOMAIN last.any.any :
                    <<"source", last.any.any[j]>> \in last.hits[i].metadata
        /\ \A i \in DOMAIN Texts(last.hits) :
              \E p \in last.pre.points :
                 /\ p.coll = last.collection_name
                 /\ p.page_content = Texts(last.hits)[i]
                 /\ \E j \in DOMAIN last.any.any : <<"source", last.any.any[j]>> \in p.metadata
        /\ last.any.any = <<"A">> =>
              \A i \in DOMAIN last.hits : <<"source", "B">> \notin last.hits[i].metadata

\* the tenant holds points of A and of B and the search for [A] returned a text
C4_Witness ==
    /\ last.op = "search"
    /\ ~last.raised
    /\ last.any = DocList(<<"A">>)
    /\ Len(last.hits) > 0
    /\ \E p \in PointsOf(last.pre.points, last.collection_name) : Source(p) = "B"

-----------------------------------------------------------------------------
(* C5: search returns at most limit texts, also when more points than that are
   admitted by the filter; with no limit given the cap is search_limit. *)
C5_SearchCap ==
    (last.op = "search" /\ ~last.raised) =>
        /\ last.limit # NoLimit => Len(Texts(last.hits)) <= last.limit
        /\ last.limit = NoLimit => Len(Texts(last.hits)) <= search_limit

Admitted(c) ==
    {p \in PointsOf(c.pre.points, c.collection_name) :
        \E j \in DOMAIN c.any.any : <<"source", c.any.any[j]>> \in p.metadata}

\* more points were admitted than the search_limit of a search with no limit
C5_Witness ==
    /\ last.op = "search"
    /\ ~last.raised
    /\ last.limit = NoLimit
    /\ Cardinality(Admitted(last)) > search_limit
    /\ Len(last.hits) = search_limit

-----------------------------------------------------------------------------
(* C6: add_document with no chunks writes no point and raises nothing, for a
   tenant with a collection and for one with none: it logs a warning and
   returns, and asks the backend for no write. *)
C6_EmptyIngestion ==
    (last.op = "add_document" /\ Len(last.given) = 0) =>
        /\ ~last.raised
        /\ last.post.points = last.pre.points
        /\ ReqsOf(last, "upsert") = {}
        /\ Cardinality(ReqsOf(last, "warning")) = 1

\* the tenant had no collection when the empty list came
C6_Witness ==
    /\ last.op = "add_document"
    /\ Len(last.given) = 0
    /\ last.collection_name \notin DOMAIN last.pre.colls
    /\ ~last.raised

-----------------------------------------------------------------------------
(* C7: when _get_vector_store stores the handle of a tenant that is not in the
   cache and the cache holds 100 entries, none of them expired, one entry goes:
   the one whose last use (its entry into the cache, or a hit of
   _get_vector_store) is the oldest; every other entry stays as it was. *)
LastUse(used, key) == CHOOSE i \in DOMAIN used : used[i] = key /\ \A j \in DOMAIN used : used[j] = key => j <= i

LeastRecentlyUsed(c, used) ==
    CHOOSE k \in CacheKeys(c) : \A o \in CacheKeys(c) : LastUse(used, k) <= LastUse(used, o)

C7_EvictsLeastRecentlyUsed ==
    last.op = "_get_vector_store" =>
        \A i \in ReqsOf(last, "cache_set") :
            LET r == last.reqs[i]
                full == /\ Len(r.before) = 100
                        /\ \A j \in DOMAIN r.before : r.time < r.before[j].expires
                        /\ r.coll \notin CacheKeys(r.before)
                lru == LeastRecentlyUsed(r.before, r.used)
            IN  full =>
                  /\ CacheKeys(last.post.cache) = (CacheKeys(r.before) \ {lru}) \cup {r.coll}
                  /\ Len(last.post.cache) = 100
                  /\ \A j \in DOMAIN r.before :
                        r.before[j].key # lru =>
                           \E k \in DOMAIN last.post.cache : last.post.cache[k] = r.before[j]

\* the cache was full, and the entry stored first had been read since
C7_Witness ==
    /\ last.op = "_get_vector_store"
    /\ \E i \in ReqsOf(last, "cache_set") :
          /\ Len(last.reqs[i].before) = 100
          /\ last.reqs[i].coll \notin CacheKeys(last.reqs[i].before)
          /\ last.reqs[i].time < ttl
          /\ last.reqs[i].before[1].key = "u2"
    /\ "u1" \in CacheKeys(last.post.cache)
    /\ "u2" \notin CacheKeys(last.post.cache)

-----------------------------------------------------------------------------
(* C8: _get_vector_store never returns a cached handle 3600 s or more after it
   was stored; the first call for the tenant after that constructs a handle and
   caches it in place of the expired one; a call made while the entry is live
   returns the cached handle and constructs nothing. *)
C8_NoHandlePastTtl ==
    last.op = "_get_vector_store" =>
        LET t == last.collection_name
            old == Entry(last.pre.cache, t)
        IN  /\ \A i \in ReqsOf(last, "cache_hit") :
                  LET e == Entry(last.reqs[i].before, t)
                  IN  /\ last.reqs[i].time < e.expires
                      /\ e.expires - 3600 <= last.reqs[i].time
                      /\ last.handle = e.handle
            /\ (t \in CacheKeys(last.pre.cache) /\ last.post.now < old.expires) =>
                  /\ ~last.raised
                  /\ last.handle = old.handle
                  /\ ReqsOf(last, "validate") = {}
            /\ (t \in CacheKeys(last.pre.cache) /\ last.pre.now >= old.expires) =>
                  /\ ~last.raised
                  /\ last.handle.id # old.handle.id
                  /\ Cardinality(ReqsOf(last, "validate")) = 1
                  /\ SelectSeq(last.post.cache, LAMBDA e : e.key = t)
                        = <<[key |-> t, handle |-> last.handle,
                             expires |-> last.reqs[Len(last.reqs)].time + 3600]>>

\* the call came after the entry's time to live and made a new handle
C8_Witness ==
    /\ last.op = "_get_vector_store"
    /\ last.collection_name \in CacheKeys(last.pre.cache)
    /\ last.pre.now >= Entry(last.pre.cache, last.collection_name).expires
    /\ ~last.raised
    /\ Entry(last.post.cache, last.collection_name).handle = last.handle

-----------------------------------------------------------------------------
(* The calls whose requests a state records: the one completed last and those
   in progress *)
Calls == {last} \cup {w[wk] : wk \in Workers}

(* C9, as claimed: in every interleaving of add_document, search,
   delete_document and delete_collection, an upsert or a query is asked of a
   tenant's collection only in a state where the collection exists with its dense
   and its sparse space. *)
C9_Original ==
    \A c \in Calls : \A i \in DOMAIN c.reqs :
        c.reqs[i].req \in {"upsert", "query"} => c.reqs[i].existed

(* C9, amended: in every interleaving, an upsert or a query is answered (a
   point written or returned) only in a state where the collection exists with
   both spaces; add_document asks for its upsert only after, in the same call,
   _ensure_collection found the collection or created it; and when no other call
   overlaps the add_document, the collection exists when the upsert is asked. *)
C9_WrittenOnlyIfExists ==
    \A c \in Calls : \A i \in DOMAIN c.reqs :
        /\ (c.reqs[i].req \in {"upsert", "query"} /\ c.reqs[i].answer = "ok")
              => c.reqs[i].existed
        /\ (c.op = "add_document" /\ c.reqs[i].req = "upsert") =>
              /\ \E j \in 1..(i - 1) :
                    /\ c.reqs[j].req \in {"get_collection", "create_collection"}
                    /\ c.reqs[j].answer = "ok"
              /\ ~c.overlapped => c.reqs[i].existed

\* a delete_collection came between the ensure and the upsert of an add_document
C9_Witness ==
    /\ last.op = "add_document"
    /\ last.raised
    /\ last.overlapped
    /\ \E i \in ReqsOf(last, "upsert") :
          ~last.reqs[i].existed /\ last.reqs[i].answer = "not_found"
    /\ \E j \in ReqsOf(last, "create_collection") : last.reqs[j].answer = "ok"

-----------------------------------------------------------------------------
(* The requests a call makes of the backend *)
BackendReqs ==
    {"get_collection", "create_collection", "validate", "upsert", "delete",
     "delete_collection", "query"}

Failed(c) == {i \in DOMAIN c.reqs : c.reqs[i].req \in BackendReqs /\ c.reqs[i].answer # "ok"}

PublicOps == {"add_document", "delete_document", "delete_collection", "search"}

(* C10, as claimed: every failure of a backend call made by add_document,
   delete_document, delete_collection or search, the collection lookup of
   _ensure_collection among them, reaches the caller unchanged, and no backend
   call is issued again after it failed. *)
C10_Original ==
    last.op \in PublicOps =>
        \A i \in Failed(last) :
            /\ last.raised
            /\ last.error = last.reqs[i].answer
            /\ \A j \in DOMAIN last.reqs : j > i => last.reqs[j].req # last.reqs[i].req

(* C10, amended: every failure of a backend call made by these operations
   reaches the caller unchanged and ends the call, except the failure of the
   collection lookup of _ensure_collection, which is caught, whatever it is, and
   followed by one create_collection request; no request is issued again after
   it failed. *)
C10_FailuresPropagate ==
    last.op \in PublicOps =>
        /\ \A i \in Failed(last) :
              IF last.reqs[i].req = "get_collection"
              THEN /\ i < Len(last.reqs)
                   /\ last.reqs[i + 1].req = "create_collection"
                   /\ Cardinality(ReqsOf(last, "create_collection")) = 1
              ELSE /\ last.raised
                   /\ last.error = last.reqs[i].answer
                   /\ i = Len(last.reqs)
        /\ \A i \in Failed(last) : \A j \in DOMAIN last.reqs :
              j > i => last.reqs[j].req # last.reqs[i].req
        /\ (last.raised /\ last.error \in {"unavailable", "not_found", "conflict"}) =>
              (Len(last.reqs) \in Failed(last)
                 /\ last.error = last.reqs[Len(last.reqs)].answer)

\* the lookup failed for want of the backend, the collection existed, and the
\* refusal of the create_collection that followed reached the caller
C10_Witness ==
    /\ last.op = "add_document"
    /\ last.collection_name \in DOMAIN last.pre.colls
    /\ Len(last.reqs) = 2
    /\ last.reqs[1].req = "get_collection" /\ last.reqs[1].answer = "unavailable"
    /\ last.reqs[2].req = "create_collection" /\ last.reqs[2].answer = "conflict"
    /\ last.raised /\ last.error = "conflict"

-----------------------------------------------------------------------------
(* C11, as claimed: delete_document(filename, tenant) raises nothing and leaves
   the collections and the points as they were whenever no point of the tenant
   has metadata.source = filename, also when the tenant holds no point at all. *)
C11_Original ==
    (/\ last.op = "delete_document"
     /\ \A p \in PointsOf(last.pre.points, last.collection_name) :
           <<"source", last.doc_name>> \notin p.metadata) =>
        /\ ~last.raised
        /\ last.post.colls = last.pre.colls
        /\ last.post.points = last.pre.points

-----------------------------------------------------------------------------
(* C12, as claimed: search with an empty allow-list, or with documents left
   unset (None), on a tenant whose collection exists, whatever it holds, raises
   nothing and returns no text. *)
C12_Original ==
    (/\ last.op = "search"
     /\ last.any \in {NoDocuments, DocList(<<>>)}
     /\ last.collection_name \in DOMAIN last.pre.colls) =>
        /\ ~last.raised
        /\ Texts(last.hits) = <<>>

-----------------------------------------------------------------------------
(* C13: search changes nothing in the backend: the collections and the points
   of every tenant, ids, texts and metadata, are after a search call what they
   were before it, whether the call returned or raised. *)
C13_SearchReadOnly ==
    last.op = "search" =>
        /\ last.post.colls = last.pre.colls
        /\ last.post.points = last.pre.points

\* a search of a tenant that holds points failed for want of the backend
C13_Witness ==
    /\ last.op = "search"
    /\ last.raised
    /\ last.error = "unavailable"
    /\ PointsOf(last.pre.points, last.collection_name) # {}

-----------------------------------------------------------------------------
(* C14, as claimed: in every sequence and every interleaving of calls of
   get_qdrant_client, at most one engine is constructed and every call returns
   the same one. *)
C14_Original ==
    /\ Cardinality(engines) <= 1
    /\ Cardinality(returned) <= 1

-----------------------------------------------------------------------------
(* C15, as claimed: _get_vector_store(tenant) returns a handle of the tenant
   and raises no KeyError, whatever calls of _get_vector_store for other tenants
   and whatever passage of time come between its membership test and its read
   of the cache. *)
C15_Original ==
    last.op = "_get_vector_store" =>
        /\ ~last.raised
        /\ last.handle.collection_name = last.collection_name

-----------------------------------------------------------------------------
(* C16: when the collection lookup of _ensure_collection fails, the collection
   being absent or the backend out of reach, one create_collection request
   follows it and no second; when that creation fails, add_document raises the
   failure to its caller, writes no point, and neither constructs a store handle
   nor touches the cache. *)
C16_CreateFailureIsFatal ==
    last.op = "add_document" =>
        /\ \A i \in ReqsOf(last, "get_collection") :
              last.reqs[i].answer # "ok" =>
                 /\ Cardinality(ReqsOf(last, "create_collection")) = 1
                 /\ i < Len(last.reqs)
                 /\ last.reqs[i + 1].req = "create_collection"
        /\ \A i \in ReqsOf(last, "create_collection") :
              last.reqs[i].answer # "ok" =>
                 /\ last.raised
                 /\ last.error = last.reqs[i].answer
                 /\ i = Len(last.reqs)
                 /\ last.post.points = last.pre.points
                 /\ last.post.colls = last.pre.colls
                 /\ last.post.cache = last.pre.cache
                 /\ last.handle = NoHandle
                 /\ \A j \in DOMAIN last.reqs :
                       last.reqs[j].req \notin {"validate", "cache_set", "cache_hit", "upsert"}

\* the tenant's collection was gone, its handle still cached, chunks were passed,
\* and the creation failed for want of the backend
C16_Witness ==
    /\ last.op = "add_document"
    /\ Len(last.given) > 0
    /\ last.collection_name \in CacheKeys(last.pre.cache)
    /\ Len(last.reqs) = 2
    /\ last.reqs[1].answer = "not_found"
    /\ last.reqs[2].req = "create_collection" /\ last.reqs[2].answer = "unavailable"
    /\ last.raised /\ last.error = "unavailable"

-----------------------------------------------------------------------------
(* The create_collection requests of the calls a state records *)
Creates ==
    Cardinality(ReqsOf(last, "create_collection"))
      + Cardinality({wk \in Workers : ReqsOf(w[wk], "create_collection") # {}})

(* C17, as claimed: when two add_document calls for one tenant with no
   collection run together, in every interleaving at most one create_collection
   request is made for the tenant, no collection is created over one that
   exists, and no call fails. *)
C17_Original ==
    /\ Creates <= 1
    /\ \A c \in Calls : \A i \in ReqsOf(c, "create_collection") :
          c.reqs[i].answer = "ok" => ~c.reqs[i].existed
    /\ last.op = "add_document" => ~last.raised

-----------------------------------------------------------------------------
(* C18, as claimed: a collection comes to exist only in an add_document call
   that writes at least one point for its tenant; search, delete_document,
   delete_collection and an add_document that writes no point create none. *)
C18_Original ==
    last.op \in PublicOps =>
        \A t \in DOMAIN last.post.colls \ DOMAIN last.pre.colls :
            /\ last.op = "add_document"
            /\ \E p \in Written(last) : p.coll = t

(* C18, amended: a collection comes to exist only in an add_document call for
   its tenant, by the create_collection request of _ensure_collection, which is
   made before the chunks are looked at: an add_document that returns leaves
   the tenant's collection in existence, also when no chunk was passed and no
   point written; search, delete_document and delete_collection create none. *)
C18_CreatedOnEnsure ==
    last.op \in PublicOps =>
        LET t == last.collection_name
            new == DOMAIN last.post.colls \ DOMAIN last.pre.colls
        IN  /\ last.op \in {"search", "delete_document", "delete_collection"} => new = {}
            /\ new \subseteq {t}
            /\ new # {} <=>
                  /\ last.op = "add_document"
                  /\ \E i \in ReqsOf(last, "create_collection") : last.reqs[i].answer = "ok"
            /\ (last.op = "add_document" /\ ~last.raised) => t \in DOMAIN last.post.colls

\* an add_document with no chunks made the collection of a tenant that had none
C18_Witness ==
    /\ last.op = "add_document"
    /\ last.given = <<>>
    /\ Written(last) = {}
    /\ last.collection_name \in DOMAIN last.post.colls \ DOMAIN last.pre.colls
    /\ PointsOf(last.post.points, last.collection_name) = {}

-----------------------------------------------------------------------------
(* C19: delete_collection and delete_document leave the handle cache as it
   was, entries, order and expiry: a handle cached for the tenant before
   delete_collection(tenant) is cached after it, and an add_document or a search
   for the tenant that asks for the handle while the entry is live gets that
   handle from the cache and constructs none. *)
C19_DeletesKeepCache ==
    LET t == last.collection_name
    IN  /\ last.op \in {"delete_collection", "delete_document"} =>
              last.post.cache = last.pre.cache
        /\ (/\ last.op = "search" \/ (last.op = "add_document" /\ Len(last.given) > 0)
            /\ t \in CacheKeys(last.pre.cache)
            /\ last.post.now < Entry(last.pre.cache, t).expires) =>
              /\ ReqsOf(last, "validate") = {}
              /\ ReqsOf(last, "cache_set") = {}
              /\ Cardinality(ReqsOf(last, "cache_hit")) = 1
              /\ last.handle = Entry(last.pre.cache, t).handle

\* the collection was deleted, time passed, and the search that followed took the
\* handle from the cache and was refused by the backend
C19_Witness ==
    /\ last.op = "search"
    /\ last.collection_name \notin DOMAIN last.pre.colls
    /\ last.collection_name \in CacheKeys(last.pre.cache)
    /\ last.pre.now > 0
    /\ ReqsOf(last, "cache_hit") # {}
    /\ last.raised /\ last.error = "not_found"

-----------------------------------------------------------------------------
(* C20: tenant isolation.  add_document, delete_document and delete_collection
   for a tenant change no collection and no point of another tenant, also when
   the other holds points of the same source file name; every hit of a search
   for a tenant is a point of that tenant's collection; every cached handle, and
   every handle a call works with, is bound to the collection its key names;
   and the cache never holds more than 100 entries. *)
C20_TenantIsolation ==
    LET t == last.collection_name
        Foreign(ps) == {p \in ps : p.coll # t}
    IN  /\ last.op \in {"add_document", "delete_document", "delete_collection"} =>
              /\ Foreign(last.post.points) = Foreign(last.pre.points)
              /\ DOMAIN last.post.colls \ {t} = DOMAIN last.pre.colls \ {t}
              /\ \A n \in DOMAIN last.pre.colls \ {t} : last.post.colls[n] = last.pre.colls[n]
        /\ last.op = "search" =>
              \A i \in DOMAIN last.hits :
                 /\ last.hits[i] \in last.pre.points
                 /\ last.hits[i].coll = t
        /\ \A i \in DOMAIN cache : cache[i].handle.collection_name = cache[i].key
        /\ \A i, j \in DOMAIN cache : cache[i].key = cache[j].key => i = j
        /\ last.handle # NoHandle => last.handle.collection_name = t
        /\ Len(cache) <= 100

\* two tenants held points of file A, the cache was full, and delete_document
\* removed those of one tenant
C20_Witness ==
    /\ last.op = "delete_document"
    /\ last.doc_name = "A"
    /\ Removed(last) # {}
    /\ \E p \in last.post.points : p.coll # last.collection_name /\ Source(p) = "A"
    /\ Len(cache) = 100
    /\ "u1" \notin CacheKeys(cache)

====
